---- MODULE Spec2Model ----
(***************************************************************************)
(* Model of vulnix's command line driver, src/src/vulnix/main.py: the      *)
(* function main() with its helpers populate_store(), run(), output() and  *)
(* output_json().  One invocation of main is one behaviour.  The classes   *)
(* main.py imports (Store, NVD, Whitelist, Derivation) live in other       *)
(* modules of the package; every call into them is modelled as an          *)
(* environment step that either returns or raises.                         *)
(***************************************************************************)
EXTENDS Integers, Sequences, FiniteSets, TLC

\* ---------------------------------------------------------------- bounds
NumDerivs == 3      \* derivations that exist in the nix store
MaxPaths == 2       \* PATH arguments on the command line
MaxSources == 2     \* --whitelist options on the command line

\* ------------------------------------------------------------- constants
CURRENT_SYSTEM == "/nix/var/nix/gcroots/current-system"

Derivs == 1 .. NumDerivs
\* Derivation.name; derivations 1 and 2 (3 and 4, ...) are the same package
\* reached through different store paths.
NameOf(d) == (d + 1) \div 2
Names == {NameOf(d) : d \in Derivs}
CVEs == {"CVE-X"}
ExcKinds == {"RuntimeError", "Other"}

\* A whitelist source is a malformed file (Whitelist.load raises), a file
\* whose rules cannot be merged (whitelist.merge raises RuntimeError), or a
\* well-formed file holding one rule that masks a package name.
WlSources == {[kind |-> "malformed", rule |-> 0], [kind |-> "conflict", rule |-> 0]}
             \cup {[kind |-> "rules", rule |-> n] : n \in Names}

SeqsUpTo(S, n) == UNION {[1 .. k -> S] : k \in 0 .. n}
Range(s) == {s[i] : i \in DOMAIN s}

VARIABLES
    args,            \* the parsed command line
    pc,              \* position in main()
    paths,           \* local `paths`
    whitelist,       \* rules held by the Whitelist object
    wh_sources,      \* local `wh_sources`: the sources still to be loaded
    wl_failed,       \* a Whitelist.load / merge call raised
    populate_called, \* populate_store() was entered
    store,           \* store.derivations.values(), in dict order
    path_i,          \* paths consumed by populate_store's loop
    added,           \* indices of paths whose add_path returned
    failed,          \* indices of paths whose add_path raised
    nvd,             \* NVD context: "unopened", "open", "closed"
    update,          \* nvd.update(): "notstarted", "running", "done", "failed"
    run_i,           \* derivations consumed by run's loop
    affected_by,     \* Derivation.affected_by per derivation
    checked,         \* number of check(nvd) calls per derivation
    affected_list,   \* run's local `affected`
    result,          \* run's return value (unique.values())
    run_done,        \* run() returned
    filter_done,     \* whitelist.filter() returned
    affected,        \* main's `affected`
    masked,          \* main's `masked`
    output_calls,    \* completed output()/output_json() reports
    add_i,           \* derivations consumed by the add_from loop
    add_from_calls,  \* number of whitelist.add_from calls per derivation
    loaded,          \* rules of the whitelist when loading finished
    writes,          \* number of write_whitelist.write calls
    written,         \* rules serialized by the last write
    exc,             \* exception raised: "none", "RuntimeError", "Other"
    logged,          \* number of _log.critical calls
    exit_code        \* arguments of the sys.exit calls made, in order

vars == <<args, pc, paths, whitelist, wh_sources, wl_failed, populate_called, store,
          path_i, added, failed, nvd, update, run_i, affected_by, checked,
          affected_list, result, run_done, filter_done, affected, masked,
          output_calls, add_i, add_from_calls, loaded, writes, written, exc,
          logged, exit_code>>

\* groups of variables used in UNCHANGED clauses
vWl == <<whitelist, wh_sources, wl_failed, loaded>>
vStore == <<populate_called, store, path_i, added, failed>>
vNvd == <<nvd, update>>
vRun == <<run_i, affected_by, checked, affected_list, result, run_done>>
vFilter == <<filter_done, affected, masked>>
vFreeze == <<add_i, add_from_calls, writes, written>>
vEnd == <<logged, exit_code>>

\* ------------------------------------------------------- pure functions

\* A Python dict as the sequence of its items in insertion order.
DictKeys(dict) == {dict[i].key : i \in DOMAIN dict}

\* dict[k] = v: a key already present keeps its position and takes the new
\* value, a new key is appended.
DictSetKeepFirst(dict, k, v) ==
    IF k \in DictKeys(dict) THEN dict
    ELSE Append(dict, [key |-> k, value |-> v])

DictSet(dict, k, v) ==
    IF k \in DictKeys(dict)
    THEN [i \in DOMAIN dict |->
            IF dict[i].key = k THEN [key |-> k, value |-> v] ELSE dict[i]]
    ELSE Append(dict, [key |-> k, value |-> v])

DictValues(dict) == [i \in DOMAIN dict |-> dict[i].value]

\* {deriv.name: deriv for deriv in affected}
RECURSIVE DictComp(_, _)
DictComp(derivs, dict) ==
    IF derivs = <<>> THEN dict
    ELSE DictComp(Tail(derivs), DictSet(dict, NameOf(Head(derivs)), Head(derivs)))

UniqueNoDedup(derivs) == derivs

\* run(): "weed out duplicates"
Unique(derivs) == DictValues(DictComp(derivs, <<>>))

RunAppendAlways(list, d, ab) == Append(list, d)

\* run(): if derivation.is_affected: affected.append(derivation)
RunAppend(list, d, ab) == IF ab # {} THEN Append(list, d) ELSE list

ExitCodeSwapped(aff, msk) ==
    IF Len(msk) > 0 THEN 1 ELSE IF Len(aff) > 0 THEN 2 ELSE 0

\* main(): the exit code after a completed pipeline
ExitCode(aff, msk) ==
    IF Len(aff) > 0 THEN 2 ELSE IF Len(msk) > 0 THEN 1 ELSE 0

PropagateUncaught(e) == "raised"

\* where an exception raised inside main's try block continues:
\* `except RuntimeError` catches it, anything else leaves main
Propagate(e) == IF e = "RuntimeError" THEN "handler" ELSE "raised"

FreezeAll(aff, msk) == aff \o msk

\* the derivations main's --write-whitelist loop iterates over
FreezeTargets(aff, msk) == aff

\* Whitelist.filter: a derivation is masked when a rule names its package,
\* otherwise it stays affected; both keep the order of the input.
FilterAffected(wl, derivs) == SelectSeq(derivs, LAMBDA d : NameOf(d) \notin wl)
FilterMasked(wl, derivs) == SelectSeq(derivs, LAMBDA d : NameOf(d) \in wl)

\* Store.add_path / Store.add_gc_roots: the derivations of a closure that
\* are not yet in store.derivations, in the order they are inserted.
NewClosures(st) ==
    {s \in SeqsUpTo(Derivs \ Range(st), NumDerivs) :
        \A i, j \in DOMAIN s : i # j => s[i] # s[j]}

Init ==
    /\ args \in [version : BOOLEAN, gc_roots : BOOLEAN, system : BOOLEAN,
                 path : {[i \in 1 .. n |-> i] : n \in 0 .. MaxPaths},
                 write_whitelist : BOOLEAN, json : BOOLEAN,
                 show_whitelisted : BOOLEAN]
    /\ pc = "start"
    /\ paths = <<>>
    /\ whitelist = {}
    /\ wh_sources \in SeqsUpTo(WlSources, MaxSources)
    /\ wl_failed = FALSE
    /\ populate_called = FALSE
    /\ store = <<>>
    /\ path_i = 0
    /\ added = {}
    /\ failed = {}
    /\ nvd = "unopened"
    /\ update = "notstarted"
    /\ run_i = 0
    /\ affected_by = [d \in Derivs |-> {}]
    /\ checked = [d \in Derivs |-> 0]
    /\ affected_list = <<>>
    /\ result = <<>>
    /\ run_done = FALSE
    /\ filter_done = FALSE
    /\ affected = <<>>
    /\ masked = <<>>
    /\ output_calls = 0
    /\ add_i = 0
    /\ add_from_calls = [d \in Derivs |-> 0]
    /\ loaded = {}
    /\ writes = 0
    /\ written = {}
    /\ exc = "none"
    /\ logged = 0
    /\ exit_code = <<>>

\* ---------------------------------------------------------------- main()

\* sys.exit(code)
SysExit(code) ==
    /\ exit_code' = Append(exit_code, code)
    /\ pc' = "exited"

\* raise e at a statement of the try block that is outside `with nvd`
Raise(e) ==
    /\ exc' = e
    /\ pc' = Propagate(e)

\* raise e at a statement inside `with nvd`: NVD.__exit__ runs first
RaiseInNvd(e) ==
    /\ exc' = e
    /\ pc' = "nvd_exit"

\* main(): --version, the check for a scan target, and the `paths` list
Start ==
    /\ pc = "start"
    /\ \/ /\ args.version
          /\ SysExit(0)
          /\ UNCHANGED paths
       \/ /\ ~args.version
          /\ ~(args.gc_roots \/ args.system \/ args.path # <<>>)
          /\ SysExit(3)
          /\ UNCHANGED paths
       \/ /\ ~args.version
          /\ args.gc_roots \/ args.system \/ args.path # <<>>
          /\ paths' = IF args.system THEN Append(args.path, CURRENT_SYSTEM)
                      ELSE args.path
          /\ pc' = "load_whitelists"
          /\ UNCHANGED exit_code
    /\ UNCHANGED <<args, vWl, vStore, vNvd, vRun, vFilter, output_calls,
                   vFreeze, exc, logged>>

\* One iteration of `for wl in wh_sources`, with the failing source skipped
\* instead of raising.
LoadWhitelistSkipBad ==
    /\ pc = "load_whitelists"
    /\ wh_sources # <<>>
    /\ LET wl == Head(wh_sources) IN
          /\ wl_failed' = (wl_failed \/ wl.kind # "rules")
          /\ whitelist' = IF wl.kind = "rules" THEN whitelist \cup {wl.rule}
                          ELSE whitelist
    /\ wh_sources' = Tail(wh_sources)
    /\ loaded' = whitelist'
    /\ UNCHANGED <<args, pc, paths, vStore, vNvd, vRun, vFilter, output_calls,
                   vFreeze, exc, vEnd>>

\* One iteration of `for wl in wh_sources: whitelist.merge(Whitelist.load(wl))`
LoadWhitelist ==
    /\ pc = "load_whitelists"
    /\ wh_sources # <<>>
    /\ LET wl == Head(wh_sources) IN
          \/ /\ wl.kind = "malformed"
             /\ \E e \in ExcKinds : Raise(e)
             /\ wl_failed' = TRUE
             /\ UNCHANGED <<whitelist, wh_sources, loaded>>
          \/ /\ wl.kind = "conflict"
             /\ Raise("RuntimeError")
             /\ wl_failed' = TRUE
             /\ UNCHANGED <<whitelist, wh_sources, loaded>>
          \/ /\ wl.kind = "rules"
             /\ whitelist' = whitelist \cup {wl.rule}
             /\ loaded' = whitelist'
             /\ wh_sources' = Tail(wh_sources)
             /\ UNCHANGED <<pc, exc, wl_failed>>
    /\ UNCHANGED <<args, paths, vStore, vNvd, vRun, vFilter, output_calls,
                   vFreeze, vEnd>>

\* populate_store(): Store(requisites) and `if gc_roots: store.add_gc_roots()`
PopulateStore ==
    /\ pc = "load_whitelists"
    /\ wh_sources = <<>>
    /\ populate_called' = TRUE
    /\ \/ /\ ~args.gc_roots
          /\ pc' = "add_paths"
          /\ UNCHANGED <<store, exc>>
       \/ /\ args.gc_roots
          /\ \E c \in NewClosures(store) : store' = store \o c
          /\ pc' = "add_paths"
          /\ UNCHANGED exc
       \/ /\ args.gc_roots
          /\ \E e \in ExcKinds : Raise(e)
          /\ UNCHANGED store
    /\ UNCHANGED <<args, paths, vWl, path_i, added, failed, vNvd, vRun,
                   vFilter, output_calls, vFreeze, vEnd>>

\* One iteration of `for path in paths`, with a path that is not found
\* skipped instead of raising.
AddPathSkipMissing ==
    /\ pc = "add_paths"
    /\ path_i < Len(paths)
    /\ \/ /\ \E c \in NewClosures(store) : store' = store \o c
          /\ added' = added \cup {path_i + 1}
          /\ UNCHANGED failed
       \/ /\ failed' = failed \cup {path_i + 1}
          /\ UNCHANGED <<store, added>>
    /\ path_i' = path_i + 1
    /\ UNCHANGED <<args, pc, paths, vWl, populate_called, vNvd, vRun, vFilter,
                   output_calls, vFreeze, exc, vEnd>>

\* populate_store(): one iteration of `for path in paths: store.add_path(path)`
AddPath ==
    /\ pc = "add_paths"
    /\ path_i < Len(paths)
    /\ \/ /\ \E c \in NewClosures(store) : store' = store \o c
          /\ added' = added \cup {path_i + 1}
          /\ path_i' = path_i + 1
          /\ UNCHANGED <<failed, pc, exc>>
       \/ /\ \E e \in ExcKinds : Raise(e)
          /\ failed' = failed \cup {path_i + 1}
          /\ UNCHANGED <<store, added, path_i>>
    /\ UNCHANGED <<args, paths, vWl, populate_called, vNvd, vRun, vFilter,
                   output_calls, vFreeze, vEnd>>

\* `nvd = NVD(mirror, cache_dir)` followed directly by the scan.
NvdEnterNoUpdate ==
    /\ pc = "add_paths"
    /\ path_i = Len(paths)
    /\ nvd' = "open"
    /\ pc' = "scan"
    /\ UNCHANGED <<args, paths, vWl, vStore, update, vRun, vFilter,
                   output_calls, vFreeze, exc, vEnd>>

\* populate_store() returns; `nvd = NVD(mirror, cache_dir)`; `with nvd:`
NvdEnter ==
    /\ pc = "add_paths"
    /\ path_i = Len(paths)
    /\ nvd' = "open"
    /\ pc' = "nvd_update"
    /\ UNCHANGED <<args, paths, vWl, vStore, update, vRun, vFilter,
                   output_calls, vFreeze, exc, vEnd>>

\* nvd.update() is called
NvdUpdateBegin ==
    /\ pc = "nvd_update"
    /\ update' = "running"
    /\ pc' = "updating"
    /\ UNCHANGED <<args, paths, vWl, vStore, nvd, vRun, vFilter, output_calls,
                   vFreeze, exc, vEnd>>

\* nvd.update() returns or raises
NvdUpdateEnd ==
    /\ pc = "updating"
    /\ \/ /\ update' = "done"
          /\ pc' = "scan"
          /\ UNCHANGED exc
       \/ /\ update' = "failed"
          /\ \E e \in ExcKinds : RaiseInNvd(e)
    /\ UNCHANGED <<args, paths, vWl, vStore, nvd, vRun, vFilter, output_calls,
                   vFreeze, vEnd>>

\* run(): one iteration of `for derivation in store.derivations.values()`
RunStep ==
    /\ pc = "scan"
    /\ run_i < Len(store)
    /\ LET d == store[run_i + 1] IN
          /\ checked' = [checked EXCEPT ![d] = @ + 1]
          /\ \/ \E ab \in SUBSET CVEs :
                   /\ affected_by' = [affected_by EXCEPT ![d] = ab]
                   /\ affected_list' = RunAppend(affected_list, d, ab)
                   /\ run_i' = run_i + 1
                   /\ UNCHANGED <<pc, exc>>
             \/ /\ \E e \in ExcKinds : RaiseInNvd(e)
                /\ UNCHANGED <<affected_by, affected_list, run_i>>
    /\ UNCHANGED <<args, paths, vWl, vStore, vNvd, result, run_done, vFilter,
                   output_calls, vFreeze, vEnd>>

\* run(): the loop is over, duplicates are weeded out, unique.values() returned
RunReturn ==
    /\ pc = "scan"
    /\ run_i = Len(store)
    /\ result' = Unique(affected_list)
    /\ run_done' = TRUE
    /\ pc' = "filter"
    /\ UNCHANGED <<args, paths, vWl, vStore, vNvd, run_i, affected_by, checked,
                   affected_list, vFilter, output_calls, vFreeze, exc, vEnd>>

\* `affected, masked = whitelist.filter(run(nvd, store))`
Filter ==
    /\ pc = "filter"
    /\ \/ /\ affected' = FilterAffected(whitelist, result)
          /\ masked' = FilterMasked(whitelist, result)
          /\ filter_done' = TRUE
          /\ pc' = "nvd_exit"
          /\ UNCHANGED exc
       \/ /\ \E e \in ExcKinds : RaiseInNvd(e)
          /\ UNCHANGED vFilter
    /\ UNCHANGED <<args, paths, vWl, vStore, vNvd, vRun, output_calls,
                   vFreeze, vEnd>>

\* Leaving `with nvd:` where an exception skips NVD.__exit__.
NvdExitLeak ==
    /\ pc = "nvd_exit"
    /\ nvd' = IF exc = "none" THEN "closed" ELSE nvd
    /\ pc' = IF exc = "none" THEN "output" ELSE Propagate(exc)
    /\ UNCHANGED <<args, paths, vWl, vStore, update, vRun, vFilter,
                   output_calls, vFreeze, exc, vEnd>>

\* Leaving `with nvd:`: NVD.__exit__ runs, then a pending exception goes on
NvdExit ==
    /\ pc = "nvd_exit"
    /\ nvd' = "closed"
    /\ pc' = IF exc = "none" THEN "output" ELSE Propagate(exc)
    /\ UNCHANGED <<args, paths, vWl, vStore, update, vRun, vFilter,
                   output_calls, vFreeze, exc, vEnd>>

\* `if json: output_json(...) else: output(...)`
Output ==
    /\ pc = "output"
    /\ \/ /\ args.json
          /\ args.show_whitelisted
          /\ Raise("RuntimeError")
          /\ UNCHANGED output_calls
       \/ /\ ~(args.json /\ args.show_whitelisted)
          /\ output_calls' = output_calls + 1
          /\ pc' = IF args.write_whitelist THEN "write_whitelist" ELSE "exit"
          /\ UNCHANGED exc
    /\ UNCHANGED <<args, paths, vWl, vStore, vNvd, vRun, vFilter, vFreeze,
                   vEnd>>

\* `if write_whitelist:` one iteration of `for d in affected: whitelist.add_from(d)`
AddFrom ==
    /\ pc = "write_whitelist"
    /\ add_i < Len(FreezeTargets(affected, masked))
    /\ LET d == FreezeTargets(affected, masked)[add_i + 1] IN
          /\ add_from_calls' = [add_from_calls EXCEPT ![d] = @ + 1]
          /\ \/ /\ whitelist' = whitelist \cup {NameOf(d)}
                /\ add_i' = add_i + 1
                /\ UNCHANGED <<pc, exc>>
             \/ /\ \E e \in ExcKinds : Raise(e)
                /\ UNCHANGED <<whitelist, add_i>>
    /\ UNCHANGED <<args, paths, wh_sources, wl_failed, loaded, vStore, vNvd, vRun,
                   vFilter, output_calls, writes, written, vEnd>>

\* `write_whitelist.write(str(whitelist))`
WriteWhitelist ==
    /\ pc = "write_whitelist"
    /\ add_i = Len(FreezeTargets(affected, masked))
    /\ \/ /\ writes' = writes + 1
          /\ written' = whitelist
          /\ pc' = "exit"
          /\ UNCHANGED exc
       \/ /\ \E e \in ExcKinds : Raise(e)
          /\ UNCHANGED <<writes, written>>
    /\ UNCHANGED <<args, paths, vWl, vStore, vNvd, vRun, vFilter,
                   output_calls, add_i, add_from_calls, vEnd>>

\* `if len(affected): sys.exit(2) elif len(masked): sys.exit(1); sys.exit(0)`
Exit ==
    /\ pc = "exit"
    /\ SysExit(ExitCode(affected, masked))
    /\ UNCHANGED <<args, paths, vWl, vStore, vNvd, vRun, vFilter,
                   output_calls, vFreeze, exc, logged>>

\* `except RuntimeError as e: _log.critical(e); sys.exit(2)`
Handler ==
    /\ pc = "handler"
    /\ logged' = logged + 1
    /\ SysExit(2)
    /\ UNCHANGED <<args, paths, vWl, vStore, vNvd, vRun, vFilter,
                   output_calls, vFreeze, exc>>

Next ==
    \/ Start
    \/ LoadWhitelist
    \/ PopulateStore
    \/ AddPath
    \/ NvdEnter
    \/ NvdUpdateBegin
    \/ NvdUpdateEnd
    \/ RunStep
    \/ RunReturn
    \/ Filter
    \/ NvdExit
    \/ Output
    \/ AddFrom
    \/ WriteWhitelist
    \/ Exit
    \/ Handler

Spec == Init /\ [][Next]_vars

\* ------------------------------------------------------------ properties

HasTarget == args.gc_roots \/ args.system \/ args.path # <<>>
Ended == pc \in {"exited", "raised"}
\* the pipeline of main ran to its last statement without an exception
Completed == pc = "exited" /\ exc = "none" /\ ~args.version /\ HasTarget
Affected(d) == affected_by[d] # {}
\* position of derivation d in store.derivations.values()
StorePos(d) == CHOOSE k \in DOMAIN store : store[k] = d
ResultNames == {NameOf(result[i]) : i \in DOMAIN result}

\* C1: without --version, main exits with 3 when no scan target (gc_roots,
\* system, path) is given; otherwise a run whose pipeline completes without
\* an exception exits with 2 iff `affected` is non-empty, with 1 iff
\* `affected` is empty and `masked` is not, and with 0 iff both are empty.
C1_ExitCode ==
    /\ pc # "exited" => exit_code = <<>>
    /\ (pc = "exited" /\ exc = "none" /\ ~args.version) =>
          /\ Len(exit_code) = 1
          /\ ~HasTarget => exit_code[1] = 3
          /\ HasTarget =>
                /\ exit_code[1] = 2 <=> affected # <<>>
                /\ exit_code[1] = 1 <=> (affected = <<>> /\ masked # <<>>)
                /\ exit_code[1] = 0 <=> (affected = <<>> /\ masked = <<>>)

C1_Witness ==
    /\ Completed
    /\ affected # <<>>
    /\ masked # <<>>
    /\ exit_code = <<2>>

\* C2: the collection returned by run holds at most one derivation per
\* name, and exactly one for every name carried by an affected derivation
\* of the store; affected derivations with the same name and different
\* store paths collapse to one entry.
C2_Dedup ==
    run_done =>
       /\ \A i, j \in DOMAIN result :
             NameOf(result[i]) = NameOf(result[j]) => i = j
       /\ ResultNames = {NameOf(d) : d \in {x \in Range(store) : Affected(x)}}

C2_Witness ==
    /\ run_done
    /\ \E d, e \in Range(store) :
          d # e /\ NameOf(d) = NameOf(e) /\ Affected(d) /\ Affected(e)
    /\ Len(result) = 1

\* C3: run calls check(nvd) exactly once on every derivation of
\* store.derivations, affected or not, and on no other; every derivation it
\* returns is a member of the store with a non-empty affected_by.
C3_CheckAll ==
    /\ \A d \in Derivs : checked[d] <= 1
    /\ \A d \in Derivs : checked[d] = 1 => d \in Range(store)
    /\ run_done => \A d \in Range(store) : checked[d] = 1
    /\ run_done => \A i \in DOMAIN result :
                      result[i] \in Range(store) /\ Affected(result[i])

C3_Witness ==
    /\ run_done
    /\ result # <<>>
    /\ \E d \in Range(store) : ~Affected(d) /\ checked[d] = 1

\* C4: when Whitelist.load or whitelist.merge fails for a whitelist source,
\* that run never calls populate_store or nvd.update, checks no derivation
\* and prints no report.
C4_AbortBeforeScan ==
    wl_failed =>
       /\ ~populate_called
       /\ store = <<>>
       /\ nvd = "unopened"
       /\ update = "notstarted"
       /\ \A d \in Derivs : checked[d] = 0
       /\ output_calls = 0

C4_Witness ==
    /\ wl_failed
    /\ Ended
    /\ whitelist # {}

\* C5 as stated: with several scan roots of which one is not found, only
\* that root is given up; the other roots are added to the store and scanned.
C5_Original ==
    (Ended /\ Len(paths) > 1 /\ failed # {}) =>
       /\ \A i \in DOMAIN paths : i \notin failed => i \in added
       /\ run_done

\* C5 amended: a scan root that is not found aborts the whole run however
\* many roots were given: no later root is added, the NVD is neither
\* opened nor updated, nothing is scanned or reported, and the run ends in
\* the RuntimeError handler (exit code 2) or with the exception leaving main.
C5_AbortsRun ==
    failed # {} =>
       /\ \E i \in DOMAIN paths : failed = {i} /\ added = 1 .. (i - 1)
       /\ path_i = Cardinality(added)
       /\ nvd = "unopened"
       /\ update = "notstarted"
       /\ \A d \in Derivs : checked[d] = 0
       /\ ~run_done
       /\ output_calls = 0
       /\ pc \in {"handler", "exited", "raised"}
       /\ pc = "exited" => exit_code = <<2>>

C5_Witness ==
    /\ pc = "exited"
    /\ Len(paths) > 1
    /\ failed = {1}
    /\ added = {}

\* C6: a RuntimeError raised at any step of main's pipeline is caught by
\* the top-level handler, logged once at critical severity and turned into
\* exit code 2, and never leaves main; JSON mode with --show-whitelisted
\* exits 2 whatever the findings, and writes no whitelist file.
C6_RuntimeErrorCaught ==
    /\ exc = "RuntimeError" => pc \in {"nvd_exit", "handler", "exited"}
    /\ pc = "raised" => exc = "Other"
    /\ logged <= 1
    /\ logged = 1 => exc = "RuntimeError"
    /\ (pc = "exited" /\ exc = "RuntimeError") =>
          exit_code = <<2>> /\ logged = 1
    /\ (pc = "exited" /\ args.json /\ args.show_whitelisted
            /\ ~args.version /\ HasTarget) =>
          /\ exit_code = <<2>>
          /\ writes = 0
          /\ \A d \in Derivs : add_from_calls[d] = 0

C6_Witness ==
    /\ pc = "exited"
    /\ args.json /\ args.show_whitelisted /\ args.write_whitelist
    /\ filter_done
    /\ affected = <<>> /\ masked = <<>>
    /\ exit_code = <<2>>
    /\ logged = 1

\* C7 as stated: of several affected derivations with the same name, the
\* one that survives in run's result is the first met when iterating
\* store.derivations.values().
C7_Original ==
    run_done =>
       \A i \in DOMAIN result : \A d \in Range(store) :
          (Affected(d) /\ NameOf(d) = NameOf(result[i]))
             => StorePos(result[i]) <= StorePos(d)

\* C7 amended: of several affected derivations with the same name, the one
\* that survives in run's result is the last met when iterating
\* store.derivations.values().
C7_LastSurvives ==
    run_done =>
       \A i \in DOMAIN result : \A d \in Range(store) :
          (Affected(d) /\ NameOf(d) = NameOf(result[i]))
             => StorePos(result[i]) >= StorePos(d)

C7_Witness ==
    /\ run_done
    /\ \E i \in DOMAIN result : \E d \in Range(store) :
          /\ d # result[i]
          /\ Affected(d)
          /\ NameOf(d) = NameOf(result[i])
          /\ StorePos(d) < StorePos(result[i])

\* C8: within one invocation all whitelist sources are loaded and merged
\* before the store is populated, the store is populated before nvd.update
\* starts, nvd.update has completed before any derivation is checked,
\* whitelist.filter works on the completed result of run, and the report
\* comes after filtering; no check happens while nvd.update is running or
\* has not started.
C8_PipelineOrder ==
    /\ populate_called => (wh_sources = <<>> /\ ~wl_failed)
    /\ update # "notstarted" =>
          (populate_called /\ path_i = Len(paths) /\ failed = {})
    /\ (\E d \in Derivs : checked[d] > 0) => update = "done"
    /\ pc = "scan" => update = "done"
    /\ run_done => update = "done"
    /\ pc = "filter" => run_done
    /\ filter_done => run_done
    /\ output_calls > 0 => filter_done

C8_Witness ==
    /\ output_calls = 1
    /\ loaded # {}
    /\ store # <<>>
    /\ added # {}
    /\ \E d \in Derivs : checked[d] = 1

\* C9: once entered, the NVD context is exited on every path, normal or
\* exceptional, before the report is produced, before the RuntimeError
\* handler runs and before the process ends; sys.exit is never called
\* while the context is open.
C9_NvdScoped ==
    /\ exit_code # <<>> => nvd # "open"
    /\ logged > 0 => nvd # "open"
    /\ output_calls > 0 => nvd = "closed"
    /\ pc \in {"output", "write_whitelist", "exit", "handler", "exited",
               "raised"} => nvd # "open"
    /\ (pc \in {"output", "write_whitelist", "exit"} \/ update # "notstarted")
          => nvd # "unopened"

C9_Witness ==
    /\ pc = "handler"
    /\ update = "failed"
    /\ nvd = "closed"

\* C10: with --write-whitelist, after filtering and the report,
\* whitelist.add_from is called exactly once for each derivation of
\* `affected` and for none of `masked`, on the whitelist that holds the
\* merged loaded rules, and the whitelist is then written exactly once; the
\* exit code is still 2 when `affected` is non-empty; without
\* --write-whitelist add_from is never called.
C10_Freeze ==
    /\ ~args.write_whitelist =>
          (writes = 0 /\ \A d \in Derivs : add_from_calls[d] = 0)
    /\ \A d \in Derivs : add_from_calls[d] <= 1
    /\ \A d \in Derivs : add_from_calls[d] = 1 =>
          (d \in Range(affected) /\ filter_done /\ output_calls = 1)
    /\ \A d \in Range(masked) : add_from_calls[d] = 0
    /\ writes <= 1
    /\ writes = 1 =>
          /\ \A d \in Range(affected) : add_from_calls[d] = 1
          /\ written = loaded \cup {NameOf(d) : d \in Range(affected)}
    /\ (Completed /\ args.write_whitelist) => writes = 1
    /\ (Completed /\ affected # <<>>) => exit_code = <<2>>

C10_Witness ==
    /\ Completed
    /\ args.write_whitelist
    /\ loaded # {}
    /\ affected # <<>>
    /\ masked # <<>>
    /\ \A d \in Range(affected) : add_from_calls[d] = 1
    /\ writes = 1
    /\ exit_code = <<2>>

====
